---- MODULE Spec2Model ----
(***************************************************************************)
(* The trade-escrow program (programs/trade-escrow): a Config singleton,   *)
(* one Escrow + vault pair per lock, and the seven instructions            *)
(* initialize, lock, settle, refund, pause, unpause, update_oracles.       *)
(* Every instruction is one atomic transaction: the account constraints    *)
(* of its #[derive(Accounts)] struct are evaluated first, then the         *)
(* handler; any error rolls the whole transaction back.  An action is      *)
(* therefore enabled exactly when its instruction returns Ok, and the      *)
(* error a call returns otherwise is given by the *_result operators.      *)
(***************************************************************************)
EXTENDS Integers, Sequences, FiniteSets, TLC

\* ------------------------------------------------------------------ bounds
MaxEscrows == 2
MaxSigs == 2
ClockStart == 1000

\* --------------------------------------------------------- program constants
MaxDeadlineOffset == 600
QuorumThreshold == 2
MinSignatures == 2
DefaultFeeBps == 50
BpsDenominator == 10000

\* ------------------------------------------------------------------ inputs
Buyers == {"alice", "bob"}
Sellers == {"seller"}
Admins == {"admin"}
Guardians == {"guardian"}
FeeRecipients == {"treasury"}
Outsiders == {"mallory"}
OracleKeys == {"o1", "o2", "o3"}
Pubkeys == Buyers \cup Sellers \cup Admins \cup Guardians \cup FeeRecipients
             \cup Outsiders \cup OracleKeys
AssetIds == {42}
Amounts == {100, 1000}
PriceCaps == {500, 1000}
DeadlineOffsets == {-1, 0, 1, MaxDeadlineOffset, MaxDeadlineOffset + 1}
OracleSets == {<<"o1", "o2", "o3">>, <<"o1", "o1", "o2">>}
InitialBalance == [k \in Pubkeys |->
                     IF k = "alice" THEN 1102 ELSE IF k = "bob" THEN 100 ELSE 0]
\* the instants the clock is observed at: two consecutive seconds, and one
\* second more than the maximal deadline after the start
ClockPoints == {ClockStart, ClockStart + 1, ClockStart + MaxDeadlineOffset + 1}

\* ------------------------------------------------------------------ state
VARIABLES
    now,        \* Clock::get().unix_timestamp
    config,     \* the Config account at seeds [CONFIG_SEED]
    escrows,    \* Escrow accounts by address
    vault,      \* balance of each escrow's token account ("escrow_vault")
    balance,    \* balance of each owner's token account
    emitted,    \* per escrow, how many locked / settled / refunded events were emitted
    last,       \* the instruction of the last committed transaction
    fee_call,   \* one evaluation of Config::calculate_fee: its inputs and result
    overflow_checks \* the build profile's overflow-checks setting: whether a u64
                \* `+` that overflows panics (TRUE) or wraps (FALSE); it is
                \* read where sums are taken over all of u64 (WideSpec)

vars == <<now, config, escrows, vault, balance, emitted, last, fee_call, overflow_checks>>

\* ------------------------------------------------------------- signatures
\* A 64-byte signature is either all zero bytes or the Ed25519 signature of
\* some key over some message.
ZeroSig == [signer |-> "zero", msg |-> <<>>]
Sign(key, msg) == [signer |-> key, msg |-> msg]

\* What a real Ed25519 check answers (the reference the stub is compared to).
Ed25519Valid(signature, message, pubkey) ==
    signature # ZeroSig /\ signature.signer = pubkey /\ signature.msg = message

\* utils.rs verify_signature: rejects the all-zero signature, accepts the rest.
verify_signature(signature, message, pubkey) ==
    IF signature = ZeroSig THEN FALSE ELSE TRUE

\* format!("{}:{}:{}:{}:{}", asset_id, seller, amount, deadline, nonce)
ask_message(asset_id, seller, amount, deadline, nonce) ==
    <<asset_id, seller, amount, deadline, nonce>>

\* format!("settle:{}:{}:{}", escrow.asset_id, escrow.buyer, escrow.key())
settlement_message(asset_id, buyer, escrow_key) ==
    <<"settle", asset_id, buyer, escrow_key>>

\* ------------------------------------------------------------------ config
NoConfig == [exists |-> FALSE, oracle_pubkeys |-> <<"o1", "o2", "o3">>,
             paused |-> FALSE, guardian |-> "admin", admin |-> "admin",
             fee_bps |-> 0, fee_recipient |-> "admin"]

\* Config::calculate_fee: (amount as u128 * fee_bps as u128 / 10000) as u64
calculate_fee(cfg, amount) == (amount * cfg.fee_bps) \div BpsDenominator

\* ---------------------------------------------------- fixed-width integers
\* A u64 or u128 is the little-endian sequence of its bytes, so that the
\* whole range of the type is represented.
ByteBase == 256
U64Bytes == 8
U128Bytes == 16

RECURSIVE from_int(_, _)
from_int(n, bytes) ==
    IF bytes = 0 THEN <<>> ELSE <<n % ByteBase>> \o from_int(n \div ByteBase, bytes - 1)

\* `x as u128` extends with zero bytes, `x as u64` keeps the low 8 bytes
cast(x, bytes) == [i \in 1..bytes |-> IF i <= Len(x) THEN x[i] ELSE 0]

\* the exact product of x and a u16 factor k, in Len(x) + 3 bytes
RECURSIVE mul_carry(_, _, _, _)
mul_carry(x, k, i, carry) ==
    IF i > Len(x)
    THEN from_int(carry, 3)
    ELSE LET t == x[i] * k + carry
         IN  <<t % ByteBase>> \o mul_carry(x, k, i + 1, t \div ByteBase)

mul_exact(x, k) == mul_carry(x, k, 1, 0)

\* `x * k` in the type of x: the low Len(x) bytes of the product
wrapping_mul(x, k) == SubSeq(mul_exact(x, k), 1, Len(x))

\* the bytes of v above position `bytes` are not all zero
exceeds(v, bytes) == \E i \in (bytes + 1)..Len(v) : v[i] # 0

\* `x / d` for a small divisor, byte by byte from the most significant
RECURSIVE div_bytes(_, _, _, _)
div_bytes(x, d, i, rem) ==
    IF i = 0
    THEN <<>>
    ELSE LET t == rem * ByteBase + x[i]
         IN  div_bytes(x, d, i - 1, t % d) \o <<t \div d>>

div(x, d) == div_bytes(x, d, Len(x), 0)

\* x <= y on byte sequences, from the most significant byte
RECURSIVE less_eq_from(_, _, _)
less_eq_from(x, y, i) ==
    IF i = 0 THEN TRUE
    ELSE IF x[i] < y[i] THEN TRUE
    ELSE IF x[i] > y[i] THEN FALSE
    ELSE less_eq_from(x, y, i - 1)

less_eq(x, y) ==
    LET n == IF Len(x) > Len(y) THEN Len(x) ELSE Len(y)
    IN  less_eq_from(cast(x, n), cast(y, n), n)

\* a calculate_fee that multiplies in u64, without widening
calculate_fee_narrow(fee_bps, amount) ==
    cast(div(wrapping_mul(amount, fee_bps), BpsDenominator), U64Bytes)

\* Config::calculate_fee on the full range of u64:
\* (amount as u128 * self.fee_bps as u128 / 10000) as u64
calculate_fee_u64(fee_bps, amount) ==
    cast(div(wrapping_mul(cast(amount, U128Bytes), fee_bps), BpsDenominator),
         U64Bytes)

\* the u128 multiplication of calculate_fee overflows
fee_product_overflows(fee_bps, amount) ==
    exceeds(mul_exact(cast(amount, U128Bytes), fee_bps), U128Bytes)

\* the final `as u64` of calculate_fee drops non-zero bytes
fee_cast_truncates(fee_bps, amount) ==
    exceeds(div(wrapping_mul(cast(amount, U128Bytes), fee_bps), BpsDenominator),
            U64Bytes)

NoFeeCall == [done |-> FALSE, fee_bps |-> 0,
              amount |-> from_int(0, U64Bytes), fee |-> from_int(0, U64Bytes)]

\* ------------------------------------------------------------------ escrow
\* an escrow address that leaves the creation time out of its seeds
get_escrow_pda_without_nonce(buyer, seller, asset_id, nonce) == <<buyer, seller, asset_id, 0>>

\* get_escrow_pda / the seeds of Lock::escrow
get_escrow_pda(buyer, seller, asset_id, nonce) == <<buyer, seller, asset_id, nonce>>

\* an expiry that already holds at the deadline itself
is_expired_at_deadline(e) == now >= e.deadline
is_expired(e) == now > e.deadline
can_settle(e) == ~e.settled /\ ~is_expired(e)
\* a can_refund that forgets the settled flag
can_refund_ignoring_settled(e) == is_expired(e)
can_refund(e) == ~e.settled /\ is_expired(e)

\* utils.rs generate_nonce / lock.rs:83
generate_nonce == now

\* --------------------------------------------------------------- the ledger
\* token::transfer between two token accounts held in one balance map
TransferOk(bal, from, amount) == bal[from] >= amount

Init ==
    /\ now = ClockStart
    /\ config = NoConfig
    /\ escrows = [k \in {} |-> 0]
    /\ vault = [k \in {} |-> 0]
    /\ balance = InitialBalance
    /\ emitted = [k \in {} |-> 0]
    /\ last = "none"
    /\ fee_call = NoFeeCall
    /\ overflow_checks = TRUE

\* ------------------------------------------------------------- initialize
\* an Initialize whose config account were init_if_needed
initialize_result_if_needed == "Ok"

\* #[derive(Accounts)] struct Initialize: init of the config PDA
initialize_result == IF config.exists THEN "AccountAlreadyInUse" ELSE "Ok"

initialize(admin, guardian, fee_recipient, oracle_pubkeys) ==
    /\ initialize_result = "Ok"
    /\ config' = [exists |-> TRUE,
                  oracle_pubkeys |-> oracle_pubkeys,
                  paused |-> FALSE,
                  guardian |-> guardian,
                  admin |-> admin,
                  fee_bps |-> DefaultFeeBps,
                  fee_recipient |-> fee_recipient]
    /\ last' = "initialize"
    /\ UNCHANGED <<now, escrows, vault, balance, emitted, fee_call, overflow_checks>>

Initialize ==
    \E admin \in Admins, guardian \in Guardians, fee_recipient \in FeeRecipients,
       oracle_pubkeys \in OracleSets :
        initialize(admin, guardian, fee_recipient, oracle_pubkeys)

\* ------------------------------------------------------------------- lock
\* The signatures a caller may present for an ask: all zero bytes, the
\* seller's signature of the ask, another key's signature of the ask, and
\* the seller's signature of an ask for a different amount.
AskKinds == {"zero", "seller", "outsider", "other_amount"}

AskSignature(kind, asset_id, seller, amount, deadline, nonce) ==
    CASE kind = "zero" -> ZeroSig
      [] kind = "seller" ->
            Sign(seller, ask_message(asset_id, seller, amount, deadline, nonce))
      [] kind = "outsider" ->
            Sign("mallory", ask_message(asset_id, seller, amount, deadline, nonce))
      [] kind = "other_amount" ->
            Sign(seller, ask_message(asset_id, seller, amount + 1, deadline, nonce))

\* #[derive(Accounts)] struct Lock: init of the escrow PDA, the config
\* account, and the two constraints on buyer_token_account.
LockAccounts(buyer, seller, asset_id, amount, token_owner) ==
    IF get_escrow_pda(buyer, seller, asset_id, generate_nonce) \in DOMAIN escrows
    THEN "AccountAlreadyInUse"
    ELSE IF ~config.exists THEN "AccountNotInitialized"
    ELSE IF token_owner # buyer THEN "ConstraintRaw"
    ELSE IF ~(balance[token_owner] >= amount) THEN "InsufficientFunds"
    ELSE "Ok"

\* the bounds of utils.rs calculate_deadline (at least one minute), which
\* lock does not call
DeadlineOffsetOk_one_minute(deadline_offset) ==
    deadline_offset >= 60 /\ deadline_offset <= MaxDeadlineOffset

\* lock.rs:76-79
DeadlineOffsetOk(deadline_offset) ==
    deadline_offset > 0 /\ deadline_offset <= MaxDeadlineOffset

\* a lock that does not compare the amount with the buyer's cap
PriceOk_unchecked(amount, price_max) == TRUE

\* lock.rs:105
PriceOk(amount, price_max) == amount <= price_max

\* the lock handler without its pause check
lock_checks_unpaused(seller, asset_id, amount, price_max, ask_signature, deadline_offset) ==
    IF ~DeadlineOffsetOk(deadline_offset) THEN "InvalidDeadline"
    ELSE IF ~verify_signature(ask_signature,
                              ask_message(asset_id, seller, amount,
                                          now + deadline_offset, generate_nonce),
                              seller)
         THEN "InvalidAskSignature"
    ELSE IF ~PriceOk(amount, price_max) THEN "PriceExceedsMaximum"
    ELSE "Ok"

\* the require! chain of the lock handler, in source order
lock_checks(seller, asset_id, amount, price_max, ask_signature, deadline_offset) ==
    IF config.paused THEN "ContractPaused"
    ELSE IF ~DeadlineOffsetOk(deadline_offset) THEN "InvalidDeadline"
    ELSE IF ~verify_signature(ask_signature,
                              ask_message(asset_id, seller, amount,
                                          now + deadline_offset, generate_nonce),
                              seller)
         THEN "InvalidAskSignature"
    ELSE IF ~PriceOk(amount, price_max) THEN "PriceExceedsMaximum"
    ELSE "Ok"

\* a deposit that leaves the fee out
lock_total_amount_without_fee(amount) == amount

\* lock.rs:108-109
lock_total_amount(amount) == amount + calculate_fee(config, amount)

\* the escrow record written by lock.rs:123-131
new_escrow(buyer, seller, asset_id, amount, deadline_offset) ==
    [buyer |-> buyer, seller |-> seller, asset_id |-> asset_id,
     amount |-> amount, deadline |-> now + deadline_offset,
     settled |-> FALSE, nonce |-> generate_nonce]

lock_result(buyer, seller, asset_id, amount, price_max, ask_signature, deadline_offset, token_owner) ==
    LET a == LockAccounts(buyer, seller, asset_id, amount, token_owner)
        h == lock_checks(seller, asset_id, amount, price_max, ask_signature,
                         deadline_offset)
    IN  IF a # "Ok" THEN a
        ELSE IF h # "Ok" THEN h
        ELSE IF ~TransferOk(balance, token_owner, lock_total_amount(amount))
             THEN "TokenInsufficientFunds"
        ELSE "Ok"

lock(buyer, seller, asset_id, amount, price_max, ask_signature, deadline_offset, token_owner) ==
    LET r == lock_result(buyer, seller, asset_id, amount, price_max,
                         ask_signature, deadline_offset, token_owner)
        key == get_escrow_pda(buyer, seller, asset_id, generate_nonce)
        total == lock_total_amount(amount)
    IN  /\ r = "Ok"
        /\ balance' = [balance EXCEPT ![token_owner] = @ - total]
        /\ vault' = (key :> total) @@ vault
        /\ escrows' = (key :> new_escrow(buyer, seller, asset_id, amount,
                                         deadline_offset)) @@ escrows
        /\ emitted' = (key :> [locked |-> 1, settled |-> 0, refunded |-> 0])
                         @@ emitted
        /\ last' = "lock"
        /\ UNCHANGED <<now, config, fee_call, overflow_checks>>

\* every call of lock the model issues in the current state
LockArgs ==
    [buyer : Buyers, seller : Sellers, asset_id : AssetIds, amount : Amounts,
     price_max : PriceCaps, ask : AskKinds, deadline_offset : DeadlineOffsets,
     token_owner : Buyers]

\* the ask_signature argument of the call x
AskSignatureOf(x) ==
    AskSignature(x.ask, x.asset_id, x.seller, x.amount,
                 now + x.deadline_offset, generate_nonce)

LockResultOf(x) ==
    lock_result(x.buyer, x.seller, x.asset_id, x.amount, x.price_max,
                AskSignatureOf(x), x.deadline_offset, x.token_owner)

LockStep(x) ==
    lock(x.buyer, x.seller, x.asset_id, x.amount, x.price_max,
         AskSignatureOf(x), x.deadline_offset, x.token_owner)

LockCall ==
    /\ Cardinality(DOMAIN escrows) < MaxEscrows
    /\ \E x \in LockArgs : LockStep(x)

\* ----------------------------------------------------------------- settle
\* The signatures a caller may present to settle: all zero bytes, two
\* oracles' signatures of the settlement message, and an outsider's.
OracleSignatures(key) ==
    LET m == settlement_message(escrows[key].asset_id, escrows[key].buyer, key)
    IN  {ZeroSig, Sign("o1", m), Sign("o2", m), Sign("mallory", m)}

\* The token accounts a caller may pass to settle: the seller's and the fee
\* recipient's, or an outsider's in place of either.
SellerTokenOwners(key) == {escrows[key].seller} \cup Outsiders
FeeTokenOwners == {config.fee_recipient} \cup Outsiders

SignatureLists(key) ==
    UNION {[1..n -> OracleSignatures(key)] : n \in 0..MaxSigs}

\* #[derive(Accounts)] struct Settle
SettleAccounts(key, seller_token_owner, fee_token_owner) ==
    IF ~can_settle(escrows[key]) THEN "CannotSettle"
    ELSE IF seller_token_owner # escrows[key].seller THEN "ConstraintRaw"
    ELSE IF fee_token_owner # config.fee_recipient THEN "ConstraintRaw"
    ELSE "Ok"

\* settle.rs:75-80, the inner loop: some configured key verifies the signature
matches_oracle(signature, message, oracle_pubkeys) ==
    \E i \in 1..Len(oracle_pubkeys) :
        verify_signature(signature, message, oracle_pubkeys[i])

\* settle.rs:73-81, the outer loop
RECURSIVE count_valid_signatures(_, _, _)
count_valid_signatures(oracle_signatures, message, oracle_pubkeys) ==
    IF oracle_signatures = <<>> THEN 0
    ELSE (IF matches_oracle(Head(oracle_signatures), message, oracle_pubkeys)
          THEN 1 ELSE 0)
         + count_valid_signatures(Tail(oracle_signatures), message, oracle_pubkeys)

valid_signatures(key, oracle_signatures) ==
    count_valid_signatures(
        oracle_signatures,
        settlement_message(escrows[key].asset_id, escrows[key].buyer, key),
        config.oracle_pubkeys)

\* the require! chain of the settle handler, in source order
settle_checks(key, oracle_signatures) ==
    IF config.paused THEN "ContractPaused"
    ELSE IF ~(Len(oracle_signatures) >= MinSignatures)
         THEN "InsufficientOracleSignatures"
    ELSE IF ~(valid_signatures(key, oracle_signatures) >= QuorumThreshold)
         THEN "InvalidOracleSignatures"
    ELSE "Ok"

\* settle.rs:89-90
\* a settle that pays the seller and leaves the fee in the vault
settle_fee_skipped(key) == 0
settle_fee(key) == calculate_fee(config, escrows[key].amount)
settle_seller_amount(key) == escrows[key].amount

settle_result(key, oracle_signatures, seller_token_owner, fee_token_owner) ==
    LET a == SettleAccounts(key, seller_token_owner, fee_token_owner)
        h == settle_checks(key, oracle_signatures)
    IN  IF a # "Ok" THEN a
        ELSE IF h # "Ok" THEN h
        ELSE IF ~TransferOk(vault, key, settle_seller_amount(key))
             THEN "TokenInsufficientFunds"
        ELSE IF settle_fee(key) > 0
                /\ ~TransferOk([vault EXCEPT ![key] = @ - settle_seller_amount(key)],
                               key, settle_fee(key))
             THEN "TokenInsufficientFunds"
        ELSE "Ok"

\* settle.rs:103-139: pay the seller, pay the fee if any, mark settled, emit
settle(key, oracle_signatures, seller_token_owner, fee_token_owner) ==
    LET r == settle_result(key, oracle_signatures, seller_token_owner,
                           fee_token_owner)
        fee == settle_fee(key)
        seller_amount == settle_seller_amount(key)
        paid == [balance EXCEPT ![seller_token_owner] = @ + seller_amount]
    IN  /\ r = "Ok"
        /\ balance' = IF fee > 0
                      THEN [paid EXCEPT ![fee_token_owner] = @ + fee]
                      ELSE paid
        /\ vault' = [vault EXCEPT ![key] =
                        @ - seller_amount - (IF fee > 0 THEN fee ELSE 0)]
        /\ escrows' = [escrows EXCEPT ![key].settled = TRUE]
        /\ emitted' = [emitted EXCEPT ![key].settled = @ + 1]
        /\ last' = "settle"
        /\ UNCHANGED <<now, config, fee_call, overflow_checks>>

\* every call of settle the model issues on an escrow in the current state
SettleArgs(key) ==
    [oracle_signatures : SignatureLists(key),
     seller_token_owner : SellerTokenOwners(key),
     fee_token_owner : FeeTokenOwners]

SettleResultOf(key, x) ==
    settle_result(key, x.oracle_signatures, x.seller_token_owner, x.fee_token_owner)

SettleCall ==
    \E key \in DOMAIN escrows :
        \E x \in SettleArgs(key) :
            settle(key, x.oracle_signatures, x.seller_token_owner, x.fee_token_owner)

\* ----------------------------------------------------------------- refund
\* the Refund accounts without the constraint escrow.buyer == buyer.key()
RefundAccounts_any_caller(key, caller, buyer_token_owner) ==
    IF ~can_refund(escrows[key]) THEN "CannotRefund"
    ELSE IF buyer_token_owner # escrows[key].buyer THEN "ConstraintRaw"
    ELSE "Ok"

\* #[derive(Accounts)] struct Refund
RefundAccounts(key, caller, buyer_token_owner) ==
    IF ~can_refund(escrows[key]) THEN "CannotRefund"
    ELSE IF ~(escrows[key].buyer = caller) THEN "UnauthorizedRefund"
    ELSE IF buyer_token_owner # escrows[key].buyer THEN "ConstraintRaw"
    ELSE "Ok"

\* a refund that returns the principal and leaves the fee in the vault
refund_amount_without_fee(key) == escrows[key].amount

\* refund.rs:52-53
refund_amount(key) == escrows[key].amount + calculate_fee(config, escrows[key].amount)

\* the refund handler with the pause check of refund.rs:49 enabled
refund_checks_paused(key) == IF config.paused THEN "ContractPaused" ELSE "Ok"

\* the require! chain of the refund handler: the pause check is commented
\* out (refund.rs:48-49), so nothing is required
refund_checks(key) == "Ok"

\* a refund that is refused while the config is paused
refund_result_unless_paused(key, caller, buyer_token_owner) ==
    LET a == RefundAccounts(key, caller, buyer_token_owner)
    IN  IF a # "Ok" THEN a
        ELSE IF config.paused THEN "ContractPaused"
        ELSE IF ~TransferOk(vault, key, refund_amount(key))
             THEN "TokenInsufficientFunds"
        ELSE "Ok"

refund_result(key, caller, buyer_token_owner) ==
    LET a == RefundAccounts(key, caller, buyer_token_owner)
        h == refund_checks(key)
    IN  IF a # "Ok" THEN a
        ELSE IF h # "Ok" THEN h
        ELSE IF ~TransferOk(vault, key, refund_amount(key))
             THEN "TokenInsufficientFunds"
        ELSE "Ok"

\* a refund that also clears the amount of the escrow it pays out
refund_clearing_amount(key, caller, buyer_token_owner) ==
    LET r == refund_result(key, caller, buyer_token_owner)
    IN  /\ r = "Ok"
        /\ balance' = [balance EXCEPT ![buyer_token_owner] = @ + refund_amount(key)]
        /\ vault' = [vault EXCEPT ![key] = @ - refund_amount(key)]
        /\ escrows' = [escrows EXCEPT ![key].settled = TRUE, ![key].amount = 0]
        /\ emitted' = [emitted EXCEPT ![key].refunded = @ + 1]
        /\ last' = "refund"
        /\ UNCHANGED <<now, config, fee_call, overflow_checks>>

refund(key, caller, buyer_token_owner) ==
    LET r == refund_result(key, caller, buyer_token_owner)
    IN  /\ r = "Ok"
        /\ balance' = [balance EXCEPT ![buyer_token_owner] = @ + refund_amount(key)]
        /\ vault' = [vault EXCEPT ![key] = @ - refund_amount(key)]
        /\ escrows' = [escrows EXCEPT ![key].settled = TRUE]
        /\ emitted' = [emitted EXCEPT ![key].refunded = @ + 1]
        /\ last' = "refund"
        /\ UNCHANGED <<now, config, fee_call, overflow_checks>>

RefundCallers == Buyers \cup Sellers \cup Outsiders

RefundCall ==
    \E key \in DOMAIN escrows :
        \E caller \in RefundCallers, buyer_token_owner \in Buyers :
            refund(key, caller, buyer_token_owner)

\* ------------------------------------------------------------------ admin
AdminCallers == Admins \cup Guardians \cup Outsiders

\* Pause / Unpause accounts that accept the admin as well as the guardian
GuardianAccounts_or_admin(caller) ==
    IF ~config.exists THEN "AccountNotInitialized"
    ELSE IF ~(caller = config.guardian \/ caller = config.admin)
         THEN "UnauthorizedGuardian"
    ELSE "Ok"

\* #[derive(Accounts)] struct Pause / struct Unpause
GuardianAccounts(caller) ==
    IF ~config.exists THEN "AccountNotInitialized"
    ELSE IF ~(caller = config.guardian) THEN "UnauthorizedGuardian"
    ELSE "Ok"

\* the UpdateOracles accounts without the constraint admin.key() == config.admin
UpdateOraclesAccounts_any_signer(caller) ==
    IF ~config.exists THEN "AccountNotInitialized" ELSE "Ok"

\* #[derive(Accounts)] struct UpdateOracles
UpdateOraclesAccounts(caller) ==
    IF ~config.exists THEN "AccountNotInitialized"
    ELSE IF ~(caller = config.admin) THEN "UnauthorizedAdmin"
    ELSE "Ok"

pause(caller) ==
    LET r == GuardianAccounts(caller)
    IN  /\ r = "Ok"
        /\ config' = [config EXCEPT !.paused = TRUE]
        /\ last' = "pause"
        /\ UNCHANGED <<now, escrows, vault, balance, emitted, fee_call, overflow_checks>>

unpause(caller) ==
    LET r == GuardianAccounts(caller)
    IN  /\ r = "Ok"
        /\ config' = [config EXCEPT !.paused = FALSE]
        /\ last' = "unpause"
        /\ UNCHANGED <<now, escrows, vault, balance, emitted, fee_call, overflow_checks>>

update_oracles(caller, new_oracles) ==
    LET r == UpdateOraclesAccounts(caller)
    IN  /\ r = "Ok"
        /\ config' = [config EXCEPT !.oracle_pubkeys = new_oracles]
        /\ last' = "update_oracles"
        /\ UNCHANGED <<now, escrows, vault, balance, emitted, fee_call, overflow_checks>>

PauseCall == \E caller \in AdminCallers : pause(caller)
UnpauseCall == \E caller \in AdminCallers : unpause(caller)
UpdateOraclesCall ==
    \E caller \in AdminCallers, new_oracles \in OracleSets :
        update_oracles(caller, new_oracles)

\* ------------------------------------------------------------------ clock
AdvanceClock ==
    /\ \E t \in ClockPoints : t > now /\ now' = t
    /\ UNCHANGED <<config, escrows, vault, balance, emitted, last, fee_call, overflow_checks>>

\* ------------------------------------------------------------ transfers
\* The token::transfer calls a handler issues, in program order; a token
\* account is a wallet (by owner) or a vault (by escrow).
Wallet(owner) == <<"wallet", owner>>
Vault(key) == <<"vault", key>>

\* lock.rs:112-120, reached once the accounts and every require! passed
lock_transfers(buyer, seller, asset_id, amount, price_max, ask_signature, deadline_offset, token_owner) ==
    IF /\ LockAccounts(buyer, seller, asset_id, amount, token_owner) = "Ok"
       /\ lock_checks(seller, asset_id, amount, price_max, ask_signature,
                      deadline_offset) = "Ok"
    THEN << [from |-> Wallet(token_owner),
             to |-> Vault(get_escrow_pda(buyer, seller, asset_id, generate_nonce)),
             amount |-> lock_total_amount(amount)] >>
    ELSE <<>>

\* a settle that pays the seller before it has counted the signatures
settle_transfers_before_quorum(key, oracle_signatures, seller_token_owner, fee_token_owner) ==
    IF /\ SettleAccounts(key, seller_token_owner, fee_token_owner) = "Ok"
       /\ ~config.paused
       /\ Len(oracle_signatures) >= MinSignatures
    THEN << [from |-> Vault(key), to |-> Wallet(seller_token_owner),
             amount |-> settle_seller_amount(key)] >>
    ELSE <<>>

\* settle.rs:103-127, reached once the accounts and every require! passed;
\* the fee transfer follows a seller transfer that succeeded
settle_transfers(key, oracle_signatures, seller_token_owner, fee_token_owner) ==
    IF /\ SettleAccounts(key, seller_token_owner, fee_token_owner) = "Ok"
       /\ settle_checks(key, oracle_signatures) = "Ok"
    THEN << [from |-> Vault(key), to |-> Wallet(seller_token_owner),
             amount |-> settle_seller_amount(key)] >>
         \o (IF TransferOk(vault, key, settle_seller_amount(key)) /\ settle_fee(key) > 0
             THEN << [from |-> Vault(key), to |-> Wallet(fee_token_owner),
                      amount |-> settle_fee(key)] >>
             ELSE <<>>)
    ELSE <<>>

\* refund.rs:65-75
refund_transfers(key, caller, buyer_token_owner) ==
    IF /\ RefundAccounts(key, caller, buyer_token_owner) = "Ok"
       /\ refund_checks(key) = "Ok"
    THEN << [from |-> Vault(key), to |-> Wallet(buyer_token_owner),
             amount |-> refund_amount(key)] >>
    ELSE <<>>

\* token::transfer on the ledger [wallets, vaults]
apply_transfer(t, ledger) ==
    LET debited ==
            IF t.from[1] = "wallet"
            THEN [ledger EXCEPT !.wallets[t.from[2]] = @ - t.amount]
            ELSE [ledger EXCEPT !.vaults[t.from[2]] = @ - t.amount]
    IN  IF t.to[1] = "wallet"
        THEN [debited EXCEPT !.wallets[t.to[2]] = @ + t.amount]
        ELSE [debited EXCEPT !.vaults[t.to[2]] = @ + t.amount]

RECURSIVE apply_transfers(_, _)
apply_transfers(ts, ledger) ==
    IF ts = <<>> THEN ledger
    ELSE apply_transfers(Tail(ts), apply_transfer(Head(ts), ledger))

Next ==
    \/ Initialize
    \/ LockCall
    \/ SettleCall
    \/ RefundCall
    \/ PauseCall
    \/ UnpauseCall
    \/ UpdateOraclesCall
    \/ AdvanceClock

Spec == Init /\ [][Next]_vars

\* ------------------------------------------------- the program over time
\* The same instructions with a clock that outlasts every deadline: an
\* instant past the latest deadline a Lock can set is added, and Lock is
\* called only while that instant is still ahead of its latest deadline.
LiveClockPoints == ClockPoints \cup {ClockStart + MaxDeadlineOffset + 2}

LiveHorizon == ClockStart + MaxDeadlineOffset + 2

LiveLockCall ==
    /\ now + MaxDeadlineOffset < LiveHorizon
    /\ LockCall

LiveAdvanceClock ==
    /\ \E t \in LiveClockPoints : t > now /\ now' = t
    /\ UNCHANGED <<config, escrows, vault, balance, emitted, last, fee_call, overflow_checks>>

\* the addresses an escrow can have
EscrowKeys == Buyers \X Sellers \X AssetIds \X LiveClockPoints

\* the registered buyer calls Refund on the escrow at `key`
BuyerRefund(key) ==
    /\ key \in DOMAIN escrows
    /\ refund(key, escrows[key].buyer, escrows[key].buyer)

LiveNext ==
    \/ Initialize
    \/ LiveLockCall
    \/ SettleCall
    \/ RefundCall
    \/ PauseCall
    \/ UnpauseCall
    \/ UpdateOraclesCall
    \/ LiveAdvanceClock

\* time goes on, and a buyer whose Refund is due gets to call it
LiveSpec ==
    /\ Init
    /\ [][LiveNext]_vars
    /\ WF_vars(LiveAdvanceClock)
    /\ \A key \in EscrowKeys : WF_vars(BuyerRefund(key))

\* ---------------------------------------------- calculate_fee on its own
\* amounts over the range of u64: small ones, the first with a fee of 1 at
\* 50 bps, powers of two, and the largest values
U64Samples ==
    { from_int(n, U64Bytes) : n \in {0, 1, 199, 200, 9999, 10000, 1000000} }
    \cup { <<0, 0, 0, 0, 1, 0, 0, 0>>,
           <<255, 255, 255, 255, 255, 255, 255, 0>>,
           <<0, 0, 0, 0, 0, 0, 0, 128>>,
           <<254, 255, 255, 255, 255, 255, 255, 255>>,
           <<255, 255, 255, 255, 255, 255, 255, 255>> }

\* values of the u16 field fee_bps, up to 100 % and beyond
FeeBpsSamples == {0, 1, DefaultFeeBps, 9999, BpsDenominator, BpsDenominator + 1, 65535}

FeeInit ==
    /\ now = ClockStart
    /\ config = NoConfig
    /\ escrows = [k \in {} |-> 0]
    /\ vault = [k \in {} |-> 0]
    /\ balance = InitialBalance
    /\ emitted = [k \in {} |-> 0]
    /\ last = "none"
    /\ fee_call \in [done : {FALSE}, fee_bps : FeeBpsSamples,
                      amount : U64Samples, fee : {from_int(0, U64Bytes)}]
    /\ overflow_checks = TRUE

CalculateFeeCall ==
    /\ ~fee_call.done
    /\ fee_call' = [fee_call EXCEPT
                        !.fee = calculate_fee_u64(fee_call.fee_bps, fee_call.amount),
                        !.done = TRUE]
    /\ UNCHANGED <<now, config, escrows, vault, balance, emitted, last, overflow_checks>>

FeeNext == CalculateFeeCall

FeeSpec == FeeInit /\ [][FeeNext]_vars

\* ------------------------------------- the instructions over all of u64
\* Lock, Settle and Refund with amounts and balances as u64 values, on the
\* whole range of the type. The additions of the handlers (lock.rs:109,
\* refund.rs:53) are the `+` of u64: on overflow it panics in a build with
\* overflow-checks and wraps modulo 2^64 in a build without. The token
\* program's own arithmetic is checked and returns an error.
RECURSIVE add_bytes(_, _, _, _)
add_bytes(x, y, i, carry) ==
    IF i > Len(x)
    THEN <<carry>>
    ELSE LET t == x[i] + y[i] + carry
         IN  <<t % ByteBase>> \o add_bytes(x, y, i + 1, t \div ByteBase)

\* the exact sum of two values of the same type, in one byte more
add_exact(x, y) == add_bytes(x, y, 1, 0)
add_overflows(x, y) == exceeds(add_exact(x, y), Len(x))
wrapping_add(x, y) == SubSeq(add_exact(x, y), 1, Len(x))

\* x - y for y <= x
RECURSIVE sub_bytes(_, _, _, _)
sub_bytes(x, y, i, borrow) ==
    IF i > Len(x)
    THEN <<>>
    ELSE LET t == x[i] - y[i] - borrow
         IN  <<t % ByteBase>> \o sub_bytes(x, y, i + 1, IF t < 0 THEN 1 ELSE 0)

sub(x, y) == sub_bytes(x, y, 1, 0)

Zero64 == from_int(0, U64Bytes)
U64Max == [i \in 1..U64Bytes |-> ByteBase - 1]

\* `x + y` in u64 as the build compiles it
Panic == "panic"
add_u64(x, y) ==
    IF add_overflows(x, y) /\ overflow_checks THEN Panic ELSE wrapping_add(x, y)

\* lock.rs:108-109
lock_total_amount_u64(amount) ==
    add_u64(amount, calculate_fee_u64(config.fee_bps, amount))

\* refund.rs:52-53
refund_amount_u64(key) ==
    add_u64(escrows[key].amount, calculate_fee_u64(config.fee_bps, escrows[key].amount))

\* settle.rs:89-90
settle_fee_u64(key) == calculate_fee_u64(config.fee_bps, escrows[key].amount)
settle_seller_amount_u64(key) == escrows[key].amount

\* token::transfer: the source holds the amount
TransferOk_u64(bal, from, amount) == less_eq(amount, bal[from])

\* struct Lock and the lock handler, in source order
lock_result_u64(buyer, seller, asset_id, amount, price_max, ask_signature, deadline_offset, token_owner) ==
    LET total == lock_total_amount_u64(amount)
    IN  IF get_escrow_pda(buyer, seller, asset_id, generate_nonce) \in DOMAIN escrows
        THEN "AccountAlreadyInUse"
        ELSE IF ~config.exists THEN "AccountNotInitialized"
        ELSE IF token_owner # buyer THEN "ConstraintRaw"
        ELSE IF ~less_eq(amount, balance[token_owner]) THEN "InsufficientFunds"
        ELSE IF config.paused THEN "ContractPaused"
        ELSE IF ~DeadlineOffsetOk(deadline_offset) THEN "InvalidDeadline"
        ELSE IF ~verify_signature(ask_signature,
                                  ask_message(asset_id, seller, amount,
                                              now + deadline_offset, generate_nonce),
                                  seller)
             THEN "InvalidAskSignature"
        ELSE IF ~less_eq(amount, price_max) THEN "PriceExceedsMaximum"
        ELSE IF total = Panic THEN "ProgramFailedToComplete"
        ELSE IF ~TransferOk_u64(balance, token_owner, total)
             THEN "TokenInsufficientFunds"
        ELSE "Ok"

lock_u64(buyer, seller, asset_id, amount, price_max, ask_signature, deadline_offset, token_owner) ==
    LET r == lock_result_u64(buyer, seller, asset_id, amount, price_max,
                             ask_signature, deadline_offset, token_owner)
        key == get_escrow_pda(buyer, seller, asset_id, generate_nonce)
        total == lock_total_amount_u64(amount)
    IN  /\ r = "Ok"
        /\ balance' = [balance EXCEPT ![token_owner] = sub(@, total)]
        /\ vault' = (key :> total) @@ vault
        /\ escrows' = (key :> new_escrow(buyer, seller, asset_id, amount,
                                         deadline_offset)) @@ escrows
        /\ emitted' = (key :> [locked |-> 1, settled |-> 0, refunded |-> 0])
                         @@ emitted
        /\ last' = "lock"
        /\ UNCHANGED <<now, config, fee_call, overflow_checks>>

settle_result_u64(key, oracle_signatures, seller_token_owner, fee_token_owner) ==
    LET a == SettleAccounts(key, seller_token_owner, fee_token_owner)
        h == settle_checks(key, oracle_signatures)
    IN  IF a # "Ok" THEN a
        ELSE IF h # "Ok" THEN h
        ELSE IF ~TransferOk_u64(vault, key, settle_seller_amount_u64(key))
             THEN "TokenInsufficientFunds"
        ELSE IF settle_fee_u64(key) # Zero64
                /\ ~TransferOk_u64([vault EXCEPT ![key] =
                                      sub(@, settle_seller_amount_u64(key))],
                                   key, settle_fee_u64(key))
             THEN "TokenInsufficientFunds"
        ELSE "Ok"

settle_u64(key, oracle_signatures, seller_token_owner, fee_token_owner) ==
    LET r == settle_result_u64(key, oracle_signatures, seller_token_owner,
                               fee_token_owner)
        fee == settle_fee_u64(key)
        seller_amount == settle_seller_amount_u64(key)
        paid == [balance EXCEPT ![seller_token_owner] = wrapping_add(@, seller_amount)]
    IN  /\ r = "Ok"
        /\ balance' = IF fee # Zero64
                      THEN [paid EXCEPT ![fee_token_owner] = wrapping_add(@, fee)]
                      ELSE paid
        /\ vault' = [vault EXCEPT ![key] =
                        sub(sub(@, seller_amount), IF fee # Zero64 THEN fee ELSE Zero64)]
        /\ escrows' = [escrows EXCEPT ![key].settled = TRUE]
        /\ emitted' = [emitted EXCEPT ![key].settled = @ + 1]
        /\ last' = "settle"
        /\ UNCHANGED <<now, config, fee_call, overflow_checks>>

refund_result_u64(key, caller, buyer_token_owner) ==
    LET a == RefundAccounts(key, caller, buyer_token_owner)
        h == refund_checks(key)
    IN  IF a # "Ok" THEN a
        ELSE IF h # "Ok" THEN h
        ELSE IF refund_amount_u64(key) = Panic THEN "ProgramFailedToComplete"
        ELSE IF ~TransferOk_u64(vault, key, refund_amount_u64(key))
             THEN "TokenInsufficientFunds"
        ELSE "Ok"

refund_u64(key, caller, buyer_token_owner) ==
    LET r == refund_result_u64(key, caller, buyer_token_owner)
    IN  /\ r = "Ok"
        /\ balance' = [balance EXCEPT ![buyer_token_owner] =
                          wrapping_add(@, refund_amount_u64(key))]
        /\ vault' = [vault EXCEPT ![key] = sub(@, refund_amount_u64(key))]
        /\ escrows' = [escrows EXCEPT ![key].settled = TRUE]
        /\ emitted' = [emitted EXCEPT ![key].refunded = @ + 1]
        /\ last' = "refund"
        /\ UNCHANGED <<now, config, fee_call, overflow_checks>>

\* what the buyer's token account holds at the start: a small balance, half
\* of the range, and the largest supply a mint can have
BuyerBalances == {from_int(1102, U64Bytes), <<0, 0, 0, 0, 0, 0, 0, 128>>, U64Max}

WideInit ==
    /\ now = ClockStart
    /\ config = NoConfig
    /\ escrows = [k \in {} |-> 0]
    /\ vault = [k \in {} |-> 0]
    /\ \E b \in BuyerBalances :
          balance = [k \in Pubkeys |-> IF k = "alice" THEN b ELSE Zero64]
    /\ emitted = [k \in {} |-> 0]
    /\ last = "none"
    /\ fee_call = NoFeeCall
    /\ overflow_checks \in BOOLEAN

WideLockArgs ==
    [buyer : {"alice"}, seller : Sellers, asset_id : AssetIds, amount : U64Samples,
     price_max : {from_int(1000, U64Bytes), U64Max}, ask : {"seller"},
     deadline_offset : {1}, token_owner : {"alice"}]

WideLockCall ==
    /\ Cardinality(DOMAIN escrows) < MaxEscrows
    /\ \E x \in WideLockArgs :
          lock_u64(x.buyer, x.seller, x.asset_id, x.amount, x.price_max,
                   AskSignatureOf(x), x.deadline_offset, x.token_owner)

WideSettleCall ==
    \E key \in DOMAIN escrows :
        LET m == settlement_message(escrows[key].asset_id, escrows[key].buyer, key)
        IN  settle_u64(key, <<Sign("o1", m), Sign("o2", m)>>, escrows[key].seller,
                       config.fee_recipient)

WideRefundCall ==
    \E key \in DOMAIN escrows :
        refund_u64(key, escrows[key].buyer, escrows[key].buyer)

WideNext ==
    \/ Initialize
    \/ WideLockCall
    \/ WideSettleCall
    \/ WideRefundCall
    \/ AdvanceClock

WideSpec == WideInit /\ [][WideNext]_vars

\* ------------------------------------------- escrow addresses on their own
\* Lock called between more parties and on more assets than above, with an
\* ask the program accepts, so that escrows differ in each seed of the
\* address; Settle and Refund are called the way that succeeds.
IdSellers == Sellers \cup {"carol"}
IdAssetIds == AssetIds \cup {43}

IdInit ==
    /\ now = ClockStart
    /\ config = NoConfig
    /\ escrows = [k \in {} |-> 0]
    /\ vault = [k \in {} |-> 0]
    /\ balance = [k \in Pubkeys \cup IdSellers |->
                    IF k \in Pubkeys THEN InitialBalance[k] ELSE 0]
    /\ emitted = [k \in {} |-> 0]
    /\ last = "none"
    /\ fee_call = NoFeeCall
    /\ overflow_checks = TRUE

IdLockArgs ==
    [buyer : Buyers, seller : IdSellers, asset_id : IdAssetIds, amount : Amounts,
     price_max : {1000}, ask : {"seller"}, deadline_offset : {1},
     token_owner : Buyers]

IdLockCall ==
    /\ Cardinality(DOMAIN escrows) < MaxEscrows
    /\ \E x \in IdLockArgs : LockStep(x)

\* Settle with the signatures of two oracles and the registered accounts
IdSettleCall ==
    \E key \in DOMAIN escrows :
        LET m == settlement_message(escrows[key].asset_id, escrows[key].buyer, key)
        IN  settle(key, <<Sign("o1", m), Sign("o2", m)>>, escrows[key].seller,
                   config.fee_recipient)

\* Refund called by the registered buyer
IdRefundCall == \E key \in DOMAIN escrows : BuyerRefund(key)

IdNext ==
    \/ Initialize
    \/ IdLockCall
    \/ IdSettleCall
    \/ IdRefundCall
    \/ AdvanceClock

IdentitySpec == IdInit /\ [][IdNext]_vars

\* ================================================================= claims
RefundArgs == RefundCallers \X Buyers

\* the configured oracle keys that really signed the settlement message of
\* the escrow in the list
CreditedOracles(key, oracle_signatures) ==
    { k \in {config.oracle_pubkeys[i] : i \in 1..Len(config.oracle_pubkeys)} :
        \E j \in 1..Len(oracle_signatures) :
            Ed25519Valid(oracle_signatures[j],
                         settlement_message(escrows[key].asset_id,
                                            escrows[key].buyer, key),
                         k) }

\* the step pays out the vault of the escrow through settle / through refund
SettledIn(key) == emitted'[key].settled = emitted[key].settled + 1
RefundedIn(key) == emitted'[key].refunded = emitted[key].refunded + 1

\* C1: for every escrow at most one Settle or Refund ever succeeds: the
\* settled flag is set exactly when one payout has happened, and from then
\* on every Settle fails with CannotSettle and every Refund with
\* CannotRefund, whoever calls and whatever the time.
C1_AtMostOnePayout ==
    \A key \in DOMAIN escrows :
        /\ emitted[key].settled + emitted[key].refunded <= 1
        /\ escrows[key].settled <=>
               (emitted[key].settled + emitted[key].refunded = 1)
        /\ escrows[key].settled =>
            /\ \A x \in SettleArgs(key) : SettleResultOf(key, x) = "CannotSettle"
            /\ \A r \in RefundArgs : refund_result(key, r[1], r[2]) = "CannotRefund"

\* an escrow paid out by settle whose deadline has since passed, so that a
\* refund would be due were it not for the flag
C1_Witness ==
    \E key \in DOMAIN escrows :
        /\ escrows[key].settled
        /\ emitted[key].settled = 1
        /\ now > escrows[key].deadline

\* C2 (as claimed): a settle that pays out carries valid signatures of at
\* least 2 distinct configured oracle keys.
C2_SettleNeedsDistinctOracleQuorum ==
    [][\A key \in DOMAIN escrows :
         SettledIn(key) =>
            \A x \in SettleArgs(key) :
                settle(key, x.oracle_signatures, x.seller_token_owner,
                       x.fee_token_owner)
                => Cardinality(CreditedOracles(key, x.oracle_signatures))
                     >= QuorumThreshold]_vars

\* C3 (as claimed): a lock that creates an escrow carries the seller's
\* signature over (asset_id, seller, amount, now + deadline_offset, now).
C3_LockNeedsSellerAskSignature ==
    [][DOMAIN escrows' # DOMAIN escrows =>
         \A x \in LockArgs :
            LockStep(x) =>
                Ed25519Valid(AskSignatureOf(x),
                             ask_message(x.asset_id, x.seller, x.amount,
                                         now + x.deadline_offset, now),
                             x.seller)]_vars

\* C4: a settle that pays out credits the seller exactly amount and the fee
\* recipient exactly calculate_fee(amount), sets settled and empties the
\* vault, which held exactly amount + fee.
C4_SettlePaysSellerAndFee ==
    [][\A key \in DOMAIN escrows :
         SettledIn(key) =>
            LET e == escrows[key]
                fee == calculate_fee(config, e.amount)
            IN  /\ ~e.settled
                /\ vault[key] = e.amount + fee
                /\ balance' = [balance EXCEPT ![e.seller] = @ + e.amount,
                                              ![config.fee_recipient] = @ + fee]
                /\ escrows' = [escrows EXCEPT ![key].settled = TRUE]
                /\ vault' = [vault EXCEPT ![key] = 0]]_vars

\* settle has just paid out an escrow of 1000: 1000 to the seller, 5 to the
\* fee recipient, nothing left in the vault
C4_Witness ==
    /\ last = "settle"
    /\ \E key \in DOMAIN escrows :
        /\ emitted[key].settled = 1
        /\ escrows[key].amount = 1000
        /\ escrows[key].settled
        /\ vault[key] = 0
        /\ balance[escrows[key].seller] = InitialBalance[escrows[key].seller] + 1000
        /\ balance[config.fee_recipient] = InitialBalance[config.fee_recipient] + 5

\* C5 (as claimed): the registered buyer's refund of an unsettled escrow
\* past its deadline succeeds, and a refund by anyone else fails with
\* UnauthorizedRefund.
C5_NonBuyerAlwaysUnauthorized ==
    \A key \in DOMAIN escrows :
        /\ (~escrows[key].settled /\ now > escrows[key].deadline) =>
               refund_result(key, escrows[key].buyer, escrows[key].buyer) = "Ok"
        /\ \A r \in RefundArgs :
               r[1] # escrows[key].buyer =>
                   refund_result(key, r[1], r[2]) = "UnauthorizedRefund"

\* C5 (amended): the registered buyer's refund of an unsettled escrow past
\* its deadline succeeds; a refund that pays out credits the buyer exactly
\* amount + fee, sets settled and empties the vault; a refund by anyone else
\* fails and moves nothing, with UnauthorizedRefund when the escrow is
\* unsettled and past its deadline and with CannotRefund otherwise.
C5_RefundPaysBuyerOnly ==
    /\ [](\A key \in DOMAIN escrows :
            /\ (~escrows[key].settled /\ now > escrows[key].deadline) =>
                   refund_result(key, escrows[key].buyer, escrows[key].buyer) = "Ok"
            /\ \A r \in RefundArgs :
                   r[1] # escrows[key].buyer =>
                       refund_result(key, r[1], r[2]) =
                           IF ~escrows[key].settled /\ now > escrows[key].deadline
                           THEN "UnauthorizedRefund" ELSE "CannotRefund")
    /\ [][\A key \in DOMAIN escrows :
            RefundedIn(key) =>
                LET e == escrows[key]
                    fee == calculate_fee(config, e.amount)
                IN  /\ ~e.settled /\ now > e.deadline
                    /\ balance' = [balance EXCEPT ![e.buyer] = @ + e.amount + fee]
                    /\ escrows' = [escrows EXCEPT ![key].settled = TRUE]
                    /\ vault' = [vault EXCEPT ![key] = 0]]_vars

\* the buyer has just been refunded the 1005 locked for an escrow of 1000
C5_Witness ==
    /\ last = "refund"
    /\ \E key \in DOMAIN escrows :
        /\ emitted[key].refunded = 1
        /\ escrows[key].amount = 1000
        /\ now > escrows[key].deadline
        /\ vault[key] = 0
        /\ balance[escrows[key].buyer] = InitialBalance[escrows[key].buyer]

\* C6: an unsettled escrow can be settled exactly while now <= deadline and
\* refunded exactly while now > deadline, a settled one neither; every
\* refund at now <= deadline fails with CannotRefund and every settle at
\* now > deadline fails with CannotSettle, whatever the signatures.
C6_DeadlinePartition ==
    \A key \in DOMAIN escrows :
        LET e == escrows[key]
        IN  /\ ~e.settled => (can_settle(e) <=> ~can_refund(e))
            /\ e.settled => (~can_settle(e) /\ ~can_refund(e))
            /\ can_settle(e) <=> (~e.settled /\ now <= e.deadline)
            /\ can_refund(e) <=> (~e.settled /\ now > e.deadline)
            /\ now <= e.deadline =>
                 \A r \in RefundArgs : refund_result(key, r[1], r[2]) = "CannotRefund"
            /\ now > e.deadline =>
                 \A x \in SettleArgs(key) : SettleResultOf(key, x) = "CannotSettle"

\* two unsettled escrows, one exactly at its deadline and one past it
C6_Witness ==
    \E k1, k2 \in DOMAIN escrows :
        /\ ~escrows[k1].settled /\ now = escrows[k1].deadline
        /\ ~escrows[k2].settled /\ now > escrows[k2].deadline

\* every precondition of Lock other than the pause flag
LockPreconditions(x) ==
    /\ config.exists
    /\ <<x.buyer, x.seller, x.asset_id, now>> \notin DOMAIN escrows
    /\ x.token_owner = x.buyer
    /\ 0 < x.deadline_offset /\ x.deadline_offset <= 600
    /\ Ed25519Valid(AskSignatureOf(x),
                    ask_message(x.asset_id, x.seller, x.amount,
                                now + x.deadline_offset, now),
                    x.seller)
    /\ x.amount <= x.price_max
    /\ balance[x.buyer] >= x.amount + calculate_fee(config, x.amount)

\* every precondition of Settle other than the pause flag
SettlePreconditions(key, x) ==
    /\ ~escrows[key].settled
    /\ now <= escrows[key].deadline
    /\ x.seller_token_owner = escrows[key].seller
    /\ x.fee_token_owner = config.fee_recipient
    /\ Cardinality(CreditedOracles(key, x.oracle_signatures)) >= 2

\* C7: while config.paused every Lock and every Settle fails, with
\* ContractPaused when its other preconditions hold, and no step taken from a
\* paused state creates an escrow or settles one; whenever config is not
\* paused (in particular after Unpause) a Lock or Settle whose other
\* preconditions hold succeeds.
C7_PauseBlocksLockAndSettle ==
    /\ [](config.exists =>
            /\ \A x \in LockArgs :
                /\ config.paused => LockResultOf(x) # "Ok"
                /\ LockPreconditions(x) =>
                     LockResultOf(x) = IF config.paused THEN "ContractPaused" ELSE "Ok"
            /\ \A key \in DOMAIN escrows : \A x \in SettleArgs(key) :
                /\ config.paused => SettleResultOf(key, x) # "Ok"
                /\ SettlePreconditions(key, x) =>
                     SettleResultOf(key, x) =
                         IF config.paused THEN "ContractPaused" ELSE "Ok")
    /\ [][config.paused =>
            /\ DOMAIN escrows' = DOMAIN escrows
            /\ \A key \in DOMAIN escrows :
                 emitted'[key].settled = emitted[key].settled]_vars

\* the guardian has just unpaused, and a Lock and a Settle are both ready
\* to succeed
C7_Witness ==
    /\ last = "unpause"
    /\ ~config.paused
    /\ \E x \in LockArgs : LockPreconditions(x) /\ LockResultOf(x) = "Ok"
    /\ \E key \in DOMAIN escrows : \E x \in SettleArgs(key) :
         SettlePreconditions(key, x) /\ SettleResultOf(key, x) = "Ok"

\* C8: in every reachable state, paused or not and whatever the oracle set,
\* the registered buyer's Refund of an unsettled escrow past its deadline
\* succeeds.
C8_RefundNotGatedOnPause ==
    \A key \in DOMAIN escrows :
        LET e == escrows[key]
        IN  (~e.settled /\ now > e.deadline) =>
                /\ refund_result(key, e.buyer, e.buyer) = "Ok"
                /\ vault[key] = e.amount + calculate_fee(config, e.amount)

\* a refund has just been paid out while the config is paused
C8_Witness ==
    /\ config.paused
    /\ last = "refund"
    /\ \E key \in DOMAIN escrows :
        emitted[key].refunded = 1 /\ vault[key] = 0

C10_LockDepositsAmountPlusFee ==
    [][DOMAIN escrows' # DOMAIN escrows =>
         \A x \in LockArgs :
            LockStep(x) =>
                LET key == <<x.buyer, x.seller, x.asset_id, now>>
                    deposit == x.amount + calculate_fee(config, x.amount)
                IN  /\ key \notin DOMAIN escrows
                    /\ key \notin DOMAIN vault
                    /\ balance' = [balance EXCEPT ![x.buyer] = @ - deposit]
                    /\ vault' = (key :> deposit) @@ vault
                    /\ escrows' =
                         (key :> [buyer |-> x.buyer, seller |-> x.seller,
                                  asset_id |-> x.asset_id, amount |-> x.amount,
                                  deadline |-> now + x.deadline_offset,
                                  settled |-> FALSE, nonce |-> now]) @@ escrows
                    /\ now <= escrows'[key].deadline]_vars

\* a lock of 1000 at 50 bps has just deposited 1005
C10_Witness ==
    /\ last = "lock"
    /\ \E key \in DOMAIN escrows :
        /\ escrows[key].amount = 1000
        /\ escrows[key].nonce = now
        /\ ~escrows[key].settled
        /\ vault[key] = 1005
        /\ balance[escrows[key].buyer] = InitialBalance[escrows[key].buyer] - 1005

\* every precondition of Lock other than the funds of the buyer
LockPreconditionsButFunds(x) ==
    /\ config.exists /\ ~config.paused
    /\ <<x.buyer, x.seller, x.asset_id, now>> \notin DOMAIN escrows
    /\ x.token_owner = x.buyer
    /\ 0 < x.deadline_offset /\ x.deadline_offset <= 600
    /\ Ed25519Valid(AskSignatureOf(x),
                    ask_message(x.asset_id, x.seller, x.amount,
                                now + x.deadline_offset, now),
                    x.seller)
    /\ x.amount <= x.price_max

\* C11 (as claimed): a Lock whose other preconditions hold and whose buyer
\* holds less than amount + fee is rejected with InsufficientFunds by the
\* funds precondition, balances in [amount, amount + fee) included.
C11_FundsCheckedAgainstFullDeposit ==
    \A x \in LockArgs :
        ( /\ LockPreconditionsButFunds(x)
          /\ balance[x.buyer] < x.amount + calculate_fee(config, x.amount) )
        => LockResultOf(x) = "InsufficientFunds"

\* C12: no Lock with amount > price_max succeeds, and one whose earlier
\* checks pass (accounts, funds constraint, not paused, deadline, signature)
\* fails with PriceExceedsMaximum, before the transfer; every escrow a Lock
\* creates has the amount passed, and that amount is at most the price_max
\* passed with it.
C12_PriceCapEnforced ==
    /\ [](\A x \in LockArgs :
            x.amount > x.price_max =>
                /\ LockResultOf(x) # "Ok"
                /\ ( /\ config.exists /\ ~config.paused
                     /\ <<x.buyer, x.seller, x.asset_id, now>> \notin DOMAIN escrows
                     /\ x.token_owner = x.buyer
                     /\ balance[x.buyer] >= x.amount
                     /\ 0 < x.deadline_offset /\ x.deadline_offset <= 600
                     /\ AskSignatureOf(x) # ZeroSig )
                   => LockResultOf(x) = "PriceExceedsMaximum")
    /\ [][DOMAIN escrows' # DOMAIN escrows =>
            \A x \in LockArgs :
                LockStep(x) =>
                    /\ x.amount <= x.price_max
                    /\ escrows'[<<x.buyer, x.seller, x.asset_id, now>>].amount
                         = x.amount]_vars

\* a Lock of 1000 under a cap of 500 is refused with PriceExceedsMaximum
\* although the buyer could not even pay the deposit of 1005, and an escrow
\* locked within its cap exists
C12_Witness ==
    /\ \E x \in LockArgs :
        /\ x.amount = 1000 /\ x.price_max = 500
        /\ balance[x.buyer] = 1002
        /\ LockResultOf(x) = "PriceExceedsMaximum"
    /\ \E key \in DOMAIN escrows : escrows[key].amount = 100

\* C13: once the config exists, UpdateOracles is accepted from config.admin
\* and fails with UnauthorizedAdmin from everybody else; a step of
\* UpdateOracles is taken by the admin, sets oracle_pubkeys to the three keys
\* supplied and changes no other field of the config, no escrow, vault or
\* balance.
C13_UpdateOraclesAdminOnly ==
    /\ [](config.exists =>
            \A caller \in AdminCallers :
                UpdateOraclesAccounts(caller) =
                    IF caller = config.admin THEN "Ok" ELSE "UnauthorizedAdmin")
    /\ [][\A caller \in AdminCallers, new_oracles \in OracleSets :
            update_oracles(caller, new_oracles) =>
                /\ caller = config.admin
                /\ config'.oracle_pubkeys = new_oracles
                /\ config' = [config EXCEPT !.oracle_pubkeys = new_oracles]
                /\ UNCHANGED <<escrows, vault, balance>>]_vars

\* the admin has just replaced the oracle set while an escrow is open, and
\* the guardian and an outsider are both refused
C13_Witness ==
    /\ last = "update_oracles"
    /\ config.oracle_pubkeys = <<"o1", "o1", "o2">>
    /\ DOMAIN escrows # {}
    /\ \A caller \in AdminCallers \ {config.admin} :
         UpdateOraclesAccounts(caller) = "UnauthorizedAdmin"

\* C14: once the config exists, Pause and Unpause are accepted from
\* config.guardian and fail with UnauthorizedGuardian from everybody else,
\* the admin included; a step of Pause is taken by the guardian and leaves
\* paused = TRUE, a step of Unpause is taken by the guardian and leaves
\* paused = FALSE, whatever the flag was, and neither changes anything else;
\* the flag changes in no other step.
C14_PauseFlagGuardianOnly ==
    /\ [](config.exists =>
            \A caller \in AdminCallers :
                GuardianAccounts(caller) =
                    IF caller = config.guardian THEN "Ok" ELSE "UnauthorizedGuardian")
    /\ [][/\ \A caller \in AdminCallers :
                /\ pause(caller) =>
                    /\ caller = config.guardian
                    /\ config' = [config EXCEPT !.paused = TRUE]
                /\ unpause(caller) =>
                    /\ caller = config.guardian
                    /\ config' = [config EXCEPT !.paused = FALSE]
          /\ config'.paused # config.paused =>
                pause(config.guardian) \/ unpause(config.guardian)]_vars

\* the guardian has just paused a config whose admin is somebody else, and
\* the admin's Pause and Unpause are refused
C14_Witness ==
    /\ last = "pause"
    /\ config.paused
    /\ config.admin # config.guardian
    /\ GuardianAccounts(config.admin) = "UnauthorizedGuardian"

\* C15: a step of Initialize is taken only while no config exists and
\* creates it with fee_bps = 50, paused = FALSE and the oracle set, guardian,
\* admin and fee recipient supplied; once the config exists every Initialize
\* fails (the account is in use), the config never ceases to exist, and its
\* fee_bps, guardian, admin and fee_recipient never change.
C15_ConfigSingleton ==
    /\ [](config.exists =>
            /\ initialize_result = "AccountAlreadyInUse"
            /\ config.fee_bps = 50)
    /\ [][/\ \A admin \in Admins, guardian \in Guardians,
               fee_recipient \in FeeRecipients, oracle_pubkeys \in OracleSets :
                initialize(admin, guardian, fee_recipient, oracle_pubkeys) =>
                    /\ ~config.exists
                    /\ config' = [exists |-> TRUE,
                                  oracle_pubkeys |-> oracle_pubkeys,
                                  paused |-> FALSE,
                                  guardian |-> guardian,
                                  admin |-> admin,
                                  fee_bps |-> 50,
                                  fee_recipient |-> fee_recipient]
          /\ config.exists =>
                /\ config'.exists
                /\ config'.fee_bps = config.fee_bps
                /\ config'.guardian = config.guardian
                /\ config'.admin = config.admin
                /\ config'.fee_recipient = config.fee_recipient]_vars

\* a config that has since been paused and given new oracles refuses a
\* second Initialize
C15_Witness ==
    /\ config.exists
    /\ config.paused
    /\ last = "update_oracles"
    /\ initialize_result = "AccountAlreadyInUse"
    /\ config.fee_bps = 50 /\ config.admin = "admin"
    /\ config.guardian = "guardian" /\ config.fee_recipient = "treasury"

\* the integer of a short byte sequence, and x + k, on byte sequences
RECURSIVE to_int(_)
to_int(x) == IF x = <<>> THEN 0 ELSE Head(x) + 256 * to_int(Tail(x))

RECURSIVE add_carry(_, _, _)
add_carry(x, i, carry) ==
    IF i > Len(x)
    THEN <<carry>>
    ELSE LET t == x[i] + carry
         IN  <<t % 256>> \o add_carry(x, i + 1, t \div 256)

\* q = floor(amount * fee_bps / 10000): q * 10000 <= amount * fee_bps and
\* amount * fee_bps < q * 10000 + 10000, in exact arithmetic
IsFloorOfFee(q, fee_bps, amount) ==
    LET p == mul_exact(amount, fee_bps)
        qd == mul_exact(q, 10000)
    IN  /\ less_eq(qd, p)
        /\ ~less_eq(add_carry(qd, 1, 10000), p)

\* C16: for every amount of the u64 range and fee_bps <= 10000 the fee
\* calculate_fee returns is floor(amount * fee_bps / 10000): the u128 product
\* does not overflow, the cast back to u64 drops nothing, and the fee is at
\* most the amount; on small amounts it is the fee the instructions charge.
C16_FeeIsExactFloor ==
    (fee_call.done /\ fee_call.fee_bps <= 10000) =>
        /\ ~fee_product_overflows(fee_call.fee_bps, fee_call.amount)
        /\ ~fee_cast_truncates(fee_call.fee_bps, fee_call.amount)
        /\ IsFloorOfFee(fee_call.fee, fee_call.fee_bps, fee_call.amount)
        /\ less_eq(fee_call.fee, fee_call.amount)
        /\ ~exceeds(fee_call.amount, 2) =>
             to_int(fee_call.fee) =
                 calculate_fee([fee_bps |-> fee_call.fee_bps],
                               to_int(fee_call.amount))

\* the fee of 2^64 - 1 at 100 % has been computed and is 2^64 - 1
C16_Witness ==
    /\ fee_call.done
    /\ fee_call.fee_bps = 10000
    /\ fee_call.amount = [i \in 1..8 |-> 255]
    /\ fee_call.fee = [i \in 1..8 |-> 255]

\* the sum of the values of a function with a finite domain
RECURSIVE SumOver(_, _)
SumOver(f, keys) ==
    IF keys = {} THEN 0
    ELSE LET k == CHOOSE k \in keys : TRUE
         IN  f[k] + SumOver(f, keys \ {k})

\* all tokens: every owner's token account and every vault
TotalTokens(bal, vlt) == SumOver(bal, DOMAIN bal) + SumOver(vlt, DOMAIN vlt)

\* C17: every escrow has a vault, holding exactly amount + fee while the
\* escrow is unsettled and exactly 0 once it is settled; the tokens in all
\* token accounts and vaults together are what they were at the start; a
\* vault's balance goes down only in a step that settles or refunds its own
\* escrow.
C17_VaultHoldsDepositUntilPayout ==
    /\ [](/\ DOMAIN vault = DOMAIN escrows
          /\ \A key \in DOMAIN escrows :
                vault[key] = IF escrows[key].settled
                             THEN 0
                             ELSE escrows[key].amount
                                    + calculate_fee(config, escrows[key].amount)
          /\ TotalTokens(balance, vault) = TotalTokens(InitialBalance, <<>>))
    /\ [][\A key \in DOMAIN vault :
            vault'[key] < vault[key] => SettledIn(key) \/ RefundedIn(key)]_vars

\* one escrow still holds its deposit of 1005 while another has been paid
\* out to the seller and its vault is empty
C17_Witness ==
    \E k1, k2 \in DOMAIN escrows :
        /\ ~escrows[k1].settled /\ vault[k1] = 1005
        /\ escrows[k2].settled /\ vault[k2] = 0 /\ emitted[k2].settled = 1
        /\ balance[escrows[k2].seller] = escrows[k2].amount

\* the errors of the accounts constraints and of the require! checks, as
\* opposed to a token::transfer that fails
PreconditionErrors ==
    {"AccountAlreadyInUse", "AccountNotInitialized", "ConstraintRaw",
     "InsufficientFunds", "ContractPaused", "InvalidDeadline",
     "InvalidAskSignature", "PriceExceedsMaximum", "CannotSettle",
     "InsufficientOracleSignatures", "InvalidOracleSignatures",
     "CannotRefund", "UnauthorizedRefund"}

LockTransfersOf(x) ==
    lock_transfers(x.buyer, x.seller, x.asset_id, x.amount, x.price_max,
                   AskSignatureOf(x), x.deadline_offset, x.token_owner)

SettleTransfersOf(key, x) ==
    settle_transfers(key, x.oracle_signatures, x.seller_token_owner,
                     x.fee_token_owner)

\* the amounts paid to the seller / the fees paid by the escrows settled
\* through settle
SettledKeys == {key \in DOMAIN escrows : emitted[key].settled = 1}
PaidToSellers == SumOver([key \in SettledKeys |-> escrows[key].amount], SettledKeys)
PaidInFees ==
    SumOver([key \in SettledKeys |-> calculate_fee(config, escrows[key].amount)],
            SettledKeys)

\* C18: a Lock, Settle or Refund that fails a precondition has issued no
\* transfer; no state has a settle half done (sellers hold exactly the
\* amounts, and the fee recipient exactly the fees, of the escrows settled)
\* or funds out of a vault whose escrow is not marked settled; every step
\* that changes a balance, a vault or an escrow is a Lock, Settle or Refund
\* that returns Ok, and moves exactly the transfers it issued.
C18_NoPartialEffects ==
    /\ [](/\ \A x \in LockArgs :
                LockResultOf(x) \in PreconditionErrors => LockTransfersOf(x) = <<>>
          /\ \A key \in DOMAIN escrows :
                /\ \A x \in SettleArgs(key) :
                      SettleResultOf(key, x) \in PreconditionErrors
                        => SettleTransfersOf(key, x) = <<>>
                /\ \A r \in RefundArgs :
                      refund_result(key, r[1], r[2]) \in PreconditionErrors
                        => refund_transfers(key, r[1], r[2]) = <<>>
                /\ ~escrows[key].settled =>
                      /\ emitted[key].settled = 0 /\ emitted[key].refunded = 0
                      /\ vault[key] > 0
          /\ SumOver(balance, Sellers) = PaidToSellers
          /\ SumOver(balance, FeeRecipients) = PaidInFees)
    /\ [][(balance' # balance \/ vault' # vault \/ escrows' # escrows) =>
            LET before == [wallets |-> balance, vaults |-> vault]
                after == [wallets |-> balance', vaults |-> vault']
            IN  IF DOMAIN escrows' # DOMAIN escrows
                THEN \E x \in LockArgs :
                        /\ <<x.buyer, x.seller, x.asset_id, now>>
                              \in DOMAIN escrows' \ DOMAIN escrows
                        /\ LockStep(x) /\ LockResultOf(x) = "Ok"
                        /\ after = apply_transfers(LockTransfersOf(x),
                                     [before EXCEPT !.vaults =
                                        (<<x.buyer, x.seller, x.asset_id, now>> :> 0) @@ @])
                ELSE \E key \in DOMAIN escrows :
                        \/ /\ SettledIn(key)
                           /\ \E oracle_signatures \in
                                    [1..MinSignatures -> OracleSignatures(key)] :
                                LET x == [oracle_signatures |-> oracle_signatures,
                                          seller_token_owner |-> escrows[key].seller,
                                          fee_token_owner |-> config.fee_recipient]
                                IN  /\ settle(key, x.oracle_signatures,
                                              x.seller_token_owner, x.fee_token_owner)
                                    /\ SettleResultOf(key, x) = "Ok"
                                    /\ Len(SettleTransfersOf(key, x)) =
                                         IF calculate_fee(config, escrows[key].amount) > 0
                                         THEN 2 ELSE 1
                                    /\ after = apply_transfers(SettleTransfersOf(key, x),
                                                               before)
                        \/ /\ RefundedIn(key)
                           /\ \E r \in RefundArgs :
                                /\ refund(key, r[1], r[2])
                                /\ refund_result(key, r[1], r[2]) = "Ok"
                                /\ after = apply_transfers(
                                             refund_transfers(key, r[1], r[2]), before)]_vars

\* an escrow of 1000 has been settled (1000 to the seller, 5 in fees), and
\* on another escrow a Settle without quorum and a Refund before the
\* deadline fail at a precondition, as does a Lock the buyer cannot fund
C18_Witness ==
    /\ PaidToSellers = 1000 /\ balance["seller"] = 1000
    /\ PaidInFees = 5 /\ balance["treasury"] = 5
    /\ \E key \in DOMAIN escrows :
        /\ ~escrows[key].settled
        /\ \E x \in SettleArgs(key) :
             SettleResultOf(key, x) = "InvalidOracleSignatures"
        /\ refund_result(key, escrows[key].buyer, escrows[key].buyer) = "CannotRefund"
    /\ \E x \in LockArgs : LockResultOf(x) = "InsufficientFunds"

\* C19: in every step every existing escrow stays, with the buyer, seller,
\* asset_id, amount, deadline and nonce it had (those of its address), and
\* settled never goes back to FALSE; at most one escrow record changes; a
\* step that settles or refunds an escrow changes no other escrow or vault
\* and creates none; a step that creates an escrow creates one and changes
\* no existing escrow or vault; Initialize, Pause, Unpause and UpdateOracles
\* change no escrow, vault or balance.
C19_OnlySettledFlagOfOneEscrowChanges ==
    /\ [](\A key \in DOMAIN escrows :
            key = <<escrows[key].buyer, escrows[key].seller,
                    escrows[key].asset_id, escrows[key].nonce>>)
    /\ [][/\ \A key \in DOMAIN escrows :
                /\ key \in DOMAIN escrows'
                /\ escrows'[key] =
                     [escrows[key] EXCEPT !.settled = escrows'[key].settled]
                /\ escrows[key].settled => escrows'[key].settled
          /\ Cardinality({key \in DOMAIN escrows : escrows'[key] # escrows[key]}) <= 1
          /\ \A key \in DOMAIN escrows :
                (SettledIn(key) \/ RefundedIn(key)) =>
                    /\ DOMAIN escrows' = DOMAIN escrows
                    /\ \A other \in DOMAIN escrows \ {key} :
                         /\ escrows'[other] = escrows[other]
                         /\ vault'[other] = vault[other]
          /\ DOMAIN escrows' # DOMAIN escrows =>
                /\ Cardinality(DOMAIN escrows' \ DOMAIN escrows) = 1
                /\ \A key \in DOMAIN escrows :
                     /\ escrows'[key] = escrows[key]
                     /\ vault'[key] = vault[key]
          /\ ( \/ \E admin \in Admins, guardian \in Guardians,
                     fee_recipient \in FeeRecipients, oracle_pubkeys \in OracleSets :
                      initialize(admin, guardian, fee_recipient, oracle_pubkeys)
               \/ \E caller \in AdminCallers :
                      \/ pause(caller)
                      \/ unpause(caller)
                      \/ \E new_oracles \in OracleSets :
                            update_oracles(caller, new_oracles) )
             => UNCHANGED <<escrows, vault, balance>>]_vars

\* after a refund of one escrow, a settle of another and a pause, both
\* records still carry the fields they were locked with
C19_Witness ==
    /\ config.paused
    /\ \E k1, k2 \in DOMAIN escrows :
        /\ emitted[k1].refunded = 1 /\ escrows[k1].settled
        /\ emitted[k2].settled = 1 /\ escrows[k2].settled
        /\ escrows[k1].amount = 1000 /\ escrows[k1].deadline = escrows[k1].nonce + 1
        /\ escrows[k2].amount = 100 /\ escrows[k2].deadline = escrows[k2].nonce + 600

\* C20: with time going on and the buyer's Refund called when it is due,
\* every escrow a Lock created is eventually settled with an empty vault,
\* whatever Pause, Unpause, UpdateOracles and Settle do in between.
C20_NoEscrowStuck ==
    \A key \in EscrowKeys :
        (key \in DOMAIN escrows)
            ~> (key \in DOMAIN escrows /\ escrows[key].settled /\ vault[key] = 0)

\* under a paused config, one escrow has been refunded and another, past its
\* deadline, is waiting for its buyer's refund
C20_Witness ==
    /\ config.paused
    /\ \E k1, k2 \in DOMAIN escrows :
        /\ emitted[k1].refunded = 1 /\ vault[k1] = 0
        /\ ~escrows[k2].settled /\ now > escrows[k2].deadline /\ vault[k2] > 0
        /\ refund_result(k2, escrows[k2].buyer, escrows[k2].buyer) = "Ok"

\* ---------------------------------------------------------------------
\* the escrow that already sits at the address the call x would create
SameIdentity(key, x) ==
    /\ escrows[key].buyer = x.buyer
    /\ escrows[key].seller = x.seller
    /\ escrows[key].asset_id = x.asset_id
    /\ escrows[key].nonce = now

\* C21: an escrow and its vault are addressed by (buyer, seller, asset_id,
\* creation-time nonce). Every escrow sits with its vault at the address of
\* its own four values, so escrows that differ in one of them are distinct
\* pairs; a Lock is refused for an occupied address exactly when an escrow
\* with the same buyer, seller and asset_id was created at the current
\* timestamp; a Lock that succeeds adds one new pair and no step rewrites
\* the fields of an existing escrow (other than its settled flag) or adds
\* funds to an existing vault.
C21_EscrowIdentity ==
    /\ [](/\ DOMAIN vault = DOMAIN escrows
          /\ \A key \in DOMAIN escrows :
                key = <<escrows[key].buyer, escrows[key].seller,
                        escrows[key].asset_id, escrows[key].nonce>>
          /\ \A x \in IdLockArgs :
                /\ (LockAccounts(x.buyer, x.seller, x.asset_id, x.amount,
                                 x.token_owner) = "AccountAlreadyInUse")
                     <=> (\E key \in DOMAIN escrows : SameIdentity(key, x))
                /\ (\E key \in DOMAIN escrows : SameIdentity(key, x))
                     => LockResultOf(x) = "AccountAlreadyInUse")
    /\ [][/\ \A key \in DOMAIN escrows :
                /\ key \in DOMAIN escrows' /\ key \in DOMAIN vault'
                /\ escrows'[key] = [escrows[key] EXCEPT
                                      !.settled = escrows'[key].settled]
                /\ vault'[key] <= vault[key]
          /\ DOMAIN escrows' # DOMAIN escrows =>
                \E x \in IdLockArgs :
                    LET key == <<x.buyer, x.seller, x.asset_id, now>>
                    IN  /\ LockStep(x)
                        /\ key \notin DOMAIN escrows
                        /\ DOMAIN escrows' = DOMAIN escrows \cup {key}
                        /\ DOMAIN vault' = DOMAIN vault \cup {key}
                        /\ escrows'[key].buyer = x.buyer
                        /\ escrows'[key].seller = x.seller
                        /\ escrows'[key].asset_id = x.asset_id
                        /\ escrows'[key].nonce = now
                        /\ vault'[key] = lock_total_amount(x.amount)]_vars

\* two escrows between the same parties on the same asset, created at
\* different timestamps, each with its own deposit, and a third Lock for
\* them at the current timestamp that fails on the occupied address alone
C21_Witness ==
    \E k1, k2 \in DOMAIN escrows :
        /\ k1 # k2
        /\ k1[1] = k2[1] /\ k1[2] = k2[2] /\ k1[3] = k2[3] /\ k1[4] # k2[4]
        /\ escrows[k2].nonce = now
        /\ vault[k1] = lock_total_amount(escrows[k1].amount)
        /\ vault[k2] = lock_total_amount(escrows[k2].amount)
        /\ \E x \in IdLockArgs :
            /\ SameIdentity(k2, x)
            /\ x.token_owner = x.buyer
            /\ ~config.paused
            /\ TransferOk(balance, x.buyer, lock_total_amount(x.amount))
            /\ LockResultOf(x) = "AccountAlreadyInUse"

\* ---------------------------------------------------------------------
\* C22: for every amount Lock accepts, the u64 sum amount + fee taken by
\* Lock and by Refund is the mathematical sum: while an escrow is unsettled
\* its vault holds exactly amount + fee, which is no less than the
\* principal the escrow records and covers Settle's two transfers.
C22_DepositSumDoesNotWrap ==
    \A key \in DOMAIN escrows :
        ~escrows[key].settled =>
            LET amount == escrows[key].amount
                fee == calculate_fee_u64(config.fee_bps, amount)
            IN  /\ ~add_overflows(amount, fee)
                /\ cast(vault[key], U64Bytes + 1) = add_exact(amount, fee)
                /\ refund_amount_u64(key) = vault[key]
                /\ less_eq(amount, vault[key])
                /\ TransferOk_u64(vault, key, settle_seller_amount_u64(key))
                /\ TransferOk_u64([vault EXCEPT ![key] =
                                     sub(@, settle_seller_amount_u64(key))],
                                  key, settle_fee_u64(key))

====
